---------------------------- MODULE Spec2Model ----------------------------
(***************************************************************************)
(* Model of src/bot.py: a Telegram bot that answers free-text movie        *)
(* queries posted in one request group from an in-memory catalog           *)
(* (MOVIES_DB), and lets administrators add records through a two-step     *)
(* /sync conversation.                                                     *)
(*                                                                         *)
(* Texts are sequences of characters; strip(), lower(), startswith() and   *)
(* the `in' substring test are computed character by character.  Telegram  *)
(* ids are abstracted to names (they do not fit TLC's integers).  Every    *)
(* handler runs on the single asyncio event loop, so the code between two  *)
(* awaits is one atomic step.  The loop is taken to be running, with one   *)
(* coroutine per update as webhook() schedules them, and time is not       *)
(* measured: a coroutine suspended in asyncio.sleep resumes at any later   *)
(* step.                                                                   *)
(***************************************************************************)
EXTENDS Integers, Sequences, FiniteSets, TLC

VARIABLES
    MOVIES_DB,      \* the in-memory catalog: an insertion-ordered dict
    file,           \* movies.json, the persisted catalog
    conversations,  \* ConversationHandler state per (chat id, user id)
    user_data,      \* context.user_data per user id
    searches,       \* search_movie coroutines suspended in asyncio.sleep
    now,            \* logical clock read by datetime.now()
    reply,          \* what the last processed step sent to the chat
    uncaught        \* the handler whose exception reached error_handler in
                    \* the last step, "" when none did

vars == <<MOVIES_DB, file, conversations, user_data, searches, now, reply,
          uncaught>>

---------------------------------------------------------------------------
(* Bounds of the model *)

\* commits the clock allows (datetime.now() values are 1..MaxCommits)
MaxCommits == 2

\* search_movie coroutines that may be suspended at the same time
MaxSearches == 1

\* titles of a catalog the matcher is run on
MaxTitles == 2

---------------------------------------------------------------------------
(* Configuration, src/bot.py lines 22-29 *)

REQUEST_GROUP_ID == "request_group"

\* The allow-list is deployment configuration ("Replace with actual admin
\* IDs"); two operators are listed so that two-operator runs exist.
ADMIN_IDS == {"admin1", "admin2"}

WAITING_FOR_MOVIE_NAME == 1

WAITING_FOR_MOVIE_LINK == 2

\* Telegram users that send updates; a private chat has its user's id.
Users == {"admin1", "admin2", "guest"}

\* update.effective_user.username (None is modelled as "")
username(u) == IF u = "admin1" THEN "neo" ELSE ""

\* update.effective_user.first_name
first_name(u) == IF u = "admin1" THEN "Thomas" ELSE IF u = "admin2" THEN "Trinity" ELSE "Guest"

---------------------------------------------------------------------------
(* Python string operations.  A text is the sequence of its characters. *)

\* Body of a value computed once (a local variable of the code)
Let(value, Body(_)) == CHOOSE result \in {Body(local) : local \in {value}} : TRUE

\* the text of a string literal
Chars(literal) == [i \in 1..Len(literal) |-> SubSeq(literal, i, i)]

\* str.isspace() of one character
IsSpace(c) == c \in {" ", "\t", "\n"}

\* the capitals of the model's texts and their lower case
LowerCase ==
    [c \in {"D", "N", "U", "E"} |->
        CASE c = "D" -> "d" [] c = "N" -> "n" [] c = "U" -> "u" [] OTHER -> "e"]

\* str.lower() of one character
LowerChar(c) == IF c \in DOMAIN LowerCase THEN LowerCase[c] ELSE c

\* str.lower()
lower(s) == Let(s, LAMBDA text : [i \in DOMAIN text |-> LowerChar(text[i])])

RECURSIVE lstrip(_)
lstrip(s) ==
    IF s = << >> THEN << >>
    ELSE IF IsSpace(Head(s)) THEN lstrip(Tail(s))
    ELSE s

RECURSIVE rstrip(_)
rstrip(s) ==
    IF s = << >> THEN << >>
    ELSE IF IsSpace(s[Len(s)]) THEN rstrip(SubSeq(s, 1, Len(s) - 1))
    ELSE s

\* str.strip()
strip(s) == Let(s, LAMBDA text : rstrip(lstrip(text)))

startswith(s, prefix) ==
    /\ Len(s) >= Len(prefix)
    /\ SubSeq(s, 1, Len(prefix)) = prefix

\* Python's `sub in s' on strings
In(sub, s) ==
    \E i \in 1..(Len(s) - Len(sub) + 1) : SubSeq(s, i, i + Len(sub) - 1) = sub


---------------------------------------------------------------------------
(* Python dicts *)

\* d[key] = value on a dict modelled as a function
DictSet(d, key, value) ==
    [k \in DOMAIN d \cup {key} |-> IF k = key THEN value ELSE d[k]]

\* del d[key]
DictDel(d, key) == [k \in DOMAIN d \ {key} |-> d[k]]

\* The catalog keeps insertion order: a sequence of [title, info] items.
Titles(db) == {db[i].title : i \in DOMAIN db}

IndexOf(db, title) == CHOOSE i \in DOMAIN db : db[i].title = title

\* db[title]
Lookup(db, title) == db[IndexOf(db, title)].info

\* a stored record must survive whole: a store that keeps only the new item
SetItemForgetful(db, title, info) == <<[title |-> title, info |-> info]>>

\* a store that appends even when the key is there
SetItemAppend(db, title, info) == Append(db, [title |-> title, info |-> info])

\* MOVIES_DB[title] = info: an existing key keeps its position, a new key
\* goes last
SetItem(db, title, info) ==
    IF title \in Titles(db)
    THEN [db EXCEPT ![IndexOf(db, title)].info = info]
    ELSE Append(db, [title |-> title, info |-> info])

---------------------------------------------------------------------------
(* Catalog persistence, src/bot.py lines 35-55 *)

\* movies.json as written by an earlier revision: a record with no 'link'
LegacyInfo == [message_id |-> 7]

LegacyDB == <<[title |-> Chars("dune"), info |-> LegacyInfo]>>

\* what movies.json may hold when the process starts
InitialFiles ==
    { [state |-> "missing", db |-> << >>],
      [state |-> "valid", db |-> LegacyDB] }

load_movies_db(f) == IF f.state = "valid" THEN f.db ELSE << >>

\* outcomes of the write: done, open() raised, json.dump raised after open()
\* truncated the file
FlushOutcomes == {"ok", "open_failed", "dump_failed"}

\* a write of the latest record only
save_latest(f, movies_db, flush) ==
    CASE flush = "ok" ->
             [state |-> "valid", db |-> SubSeq(movies_db, Len(movies_db), Len(movies_db))]
      [] flush = "open_failed" -> f
      [] OTHER -> [state |-> "corrupt", db |-> << >>]

save_movies_db(f, movies_db, flush) ==
    CASE flush = "ok" -> [state |-> "valid", db |-> movies_db]
      [] flush = "open_failed" -> f
      [] OTHER -> [state |-> "corrupt", db |-> << >>]

\* titles and the record of the catalogs the matcher is run on
MatchTitles == {Chars("du"), Chars("dune"), Chars("d"), Chars("un"), Chars("Du")}

MatchInfo == [link |-> Chars("http://a"), added_by |-> "neo", date |-> 0]

\* a dict has each key once: the orders of up to MaxTitles distinct titles
MatchKeys ==
    UNION {{k \in [1..n -> MatchTitles] :
               \A i, j \in 1..n : i # j => k[i] # k[j]} : n \in 0..MaxTitles}

\* a catalog with more titles than a reply lists
ManyTitles ==
    <<Chars("d"), Chars("dune"), Chars("un"), Chars("du"), Chars("ne"),
      Chars("e"), Chars("Du ")>>

\* movies.json holding such a catalog
MatchFiles ==
    {[state |-> "valid",
      db |-> [i \in DOMAIN k |-> [title |-> k[i], info |-> MatchInfo]]] :
         k \in MatchKeys \cup {ManyTitles}}

---------------------------------------------------------------------------
(* Updates and replies *)

\* message texts the model's users send: the commands; a name with a
\* capital and a leading blank; a second name; a name of one character
\* after stripping; a link with a trailing blank and one with a leading blank
Texts == {Chars("/start"), Chars("/help"), Chars("/sync"), Chars("/cancel"), Chars(" Du"), Chars("dune"),
          Chars(" d"), Chars("http://a "), Chars(" http://a")}

\* what the guest sends in the request group: the entry command, two
\* queries and a text too short to be one
GuestTexts == {Chars("/sync"), Chars(" Du"), Chars("dune"), Chars(" d")}

\* the bot_command entity Telegram attaches to a message whose text starts
\* with a command: the command word, or nothing
RECURSIVE FirstWord(_)
FirstWord(text) ==
    IF text = << >> \/ IsSpace(Head(text)) THEN << >>
    ELSE <<Head(text)>> \o FirstWord(Tail(text))

Slash == Chars("/")

CommandEntity(text) == IF startswith(text, Slash) THEN FirstWord(text) ELSE << >>

Update(chat, user, text) ==
    [chat |-> chat, user |-> user, text |-> text, command |-> CommandEntity(text)]

\* the updates of the model: an administrator in the private chat (whose id
\* is the user's) and a guest in the request group
Updates ==
    {Update("admin1", "admin1", t) : t \in Texts}
        \cup {Update(REQUEST_GROUP_ID, "guest", t) : t \in GuestTexts}

\* two administrators, each in a private chat, adding movies
PairTexts == {Chars("/sync"), Chars(" Du"), Chars("dune"), Chars("http://a ")}

\* what the guest sends in the request group meanwhile: a text too short
\* to be a query and one that starts with a slash after trimming
PairGuestTexts == {Chars(" d"), Chars(" /du")}

PairUpdates ==
    {Update(a, a, t) : a \in {"admin1", "admin2"}, t \in PairTexts}
        \cup {Update(REQUEST_GROUP_ID, "guest", t) : t \in PairGuestTexts}

\* an administrator adding a movie while the guest asks for it: by the
\* title's characters, and in another order
ReadUpdates ==
    {Update("admin1", "admin1", t) :
         t \in {Chars("/sync"), Chars(" Du"), Chars("http://a ")}}
        \cup {Update(REQUEST_GROUP_ID, "guest", t) : t \in {Chars(" Du"), Chars("ud")}}

\* an administrator who writes in the private chat and in the request group
RouteTexts ==
    {Chars("/sync"), Chars("/cancel"), Chars(" Du"), Chars("dune"), Chars("http://a ")}

RouteUpdates ==
    {Update(chat, "admin1", t) : chat \in {"admin1", REQUEST_GROUP_ID}, t \in RouteTexts}

\* an administrator adding two movies while the disk may fail, and the
\* guest asking for one of them
FlushUpdates ==
    {Update("admin1", "admin1", t) :
         t \in {Chars("/sync"), Chars(" Du"), Chars("dune"), Chars("http://a ")}}
        \cup {Update(REQUEST_GROUP_ID, "guest", Chars(" Du"))}

\* queries to the matcher: the guest in the request group
MatchTexts == {Chars("du"), Chars(" Dune"), Chars("un"), Chars("nd"),
               Chars("ud"), Chars("undxy"), Chars("dd")}

MatchUpdates == {Update(REQUEST_GROUP_ID, "guest", t) : t \in MatchTexts}

\* ConversationHandler's key (per_chat and per_user are the defaults)
Key(u) == <<u.chat, u.user>>

\* a message sent to the chat: its kind, the text of the message it answers,
\* and what it shows (a name, a link, a count, the listed titles and the
\* urls of its buttons)
Reply(kind, u, name, link, total, titles, urls) ==
    [kind |-> kind, to |-> u.text, name |-> name,
     link |-> link, total |-> total, titles |-> titles, urls |-> urls]

\* searching_msg.edit_text: the acknowledgment turned into a final reply
Edit(kind, name, total, titles, urls) ==
    [kind |-> kind, to |-> << >>, name |-> name,
     link |-> << >>, total |-> total, titles |-> titles, urls |-> urls]

\* a reply that carries only its kind
Plain(kind, u) == Reply(kind, u, << >>, << >>, 0, << >>, << >>)

NoReply == [kind |-> "none", to |-> << >>, name |-> << >>,
            link |-> << >>, total |-> 0, titles |-> << >>, urls |-> << >>]

\* the outcome of an awaited send: the reply, or nothing and an exception
Sent(sent, r) == IF sent THEN r ELSE NoReply

Raised(sent, handler) == IF sent THEN "" ELSE handler

\* filters.COMMAND: the message starts with a bot command
IsCommand(u) == u.command # << >>

\* CommandHandler(name): the message's command is /name
IsCommandNamed(u, name) == u.command = name

---------------------------------------------------------------------------
CmdSync == Chars("/sync")

CmdCancel == Chars("/cancel")

CmdStart == Chars("/start")

CmdHelp == Chars("/help")

(* Dispatch, src/bot.py lines 335-348.  All handlers are in one group: the  *)
(* first handler whose check accepts the update handles it, the others do   *)
(* not see it.  The ConversationHandler (allow_reentry is not set) tries    *)
(* its entry points only for a key with no conversation; for a key with a   *)
(* conversation it tries the handlers of the key's state, then the          *)
(* fallbacks, and otherwise does not accept the update.                     *)

\* the conversation handler's choice for the update, "" when it declines
ConversationRoute(conv, u) ==
    IF Key(u) \notin DOMAIN conv
    THEN IF IsCommandNamed(u, CmdSync) THEN "sync_movies" ELSE ""
    ELSE IF ~IsCommand(u)
         THEN IF conv[Key(u)] = WAITING_FOR_MOVIE_NAME
              THEN "receive_movie_name" ELSE "receive_movie_link"
         ELSE IF IsCommandNamed(u, CmdCancel) THEN "cancel_sync" ELSE ""

\* the handler that processes the update, "" when none does
Route(conv, u) ==
    IF IsCommandNamed(u, CmdStart) THEN "start"
    ELSE IF IsCommandNamed(u, CmdHelp) THEN "help_command"
    ELSE IF ConversationRoute(conv, u) # "" THEN ConversationRoute(conv, u)
    ELSE IF ~IsCommand(u) THEN "search_movie"
    ELSE ""

\* ConversationHandler after the callback: a callback that raised, or that
\* returned None, leaves the key's state; END deletes the key
END == -1

\* a callback that returns nothing (lines 100, 93)
ReturnsNone == 0

\* a handler that forgets to end conversations
UpdateStateKeepsEnded(conv, key, new_state, raised) ==
    IF raised \/ new_state = ReturnsNone \/ new_state = END THEN conv
    ELSE DictSet(conv, key, new_state)

UpdateState(conv, key, new_state, raised) ==
    IF raised \/ new_state = ReturnsNone THEN conv
    ELSE IF new_state = END THEN DictDel(conv, key)
    ELSE DictSet(conv, key, new_state)

---------------------------------------------------------------------------
(* Command handlers outside the conversation, lines 84-91 and 263-281 *)

start(u, sent) ==
    /\ Route(conversations, u) = "start"
    /\ uncaught' = Raised(sent, "start")
    /\ reply' = Sent(sent, Plain("started", u))
    /\ UNCHANGED <<MOVIES_DB, file, conversations, user_data, searches, now>>

help_command(u, sent) ==
    /\ Route(conversations, u) = "help_command"
    /\ uncaught' = Raised(sent, "help_command")
    /\ reply' = Sent(sent, Plain("help", u))
    /\ UNCHANGED <<MOVIES_DB, file, conversations, user_data, searches, now>>

\* an update no handler accepts
Unhandled(u) ==
    /\ Route(conversations, u) = ""
    /\ reply' = NoReply
    /\ uncaught' = ""
    /\ UNCHANGED <<MOVIES_DB, file, conversations, user_data, searches, now>>

---------------------------------------------------------------------------
(* The /sync conversation, src/bot.py lines 93-160.  `sent' tells whether   *)
(* the handler's reply_text went through; when it raises, the handler       *)
(* raises and the conversation keeps its state.                             *)

\* the allow-list check of line 98
IsAdminAnyone(user) == TRUE

IsAdmin(user) == user \in ADMIN_IDS

sync_movies(u, sent) ==
    /\ Route(conversations, u) = "sync_movies"
    /\ uncaught' = Raised(sent, "sync_movies")
    /\ IF ~IsAdmin(u.user)
       THEN /\ reply' = Sent(sent, Plain("denied", u))
            /\ conversations' = UpdateState(conversations, Key(u), ReturnsNone, ~sent)
       ELSE /\ reply' = Sent(sent, Plain("ask_name", u))
            /\ conversations' =
                   UpdateState(conversations, Key(u), WAITING_FOR_MOVIE_NAME, ~sent)
    /\ UNCHANGED <<MOVIES_DB, file, user_data, searches, now>>

\* line 111 without the normalisation
NormalizeRaw(text) == text

\* line 111: update.message.text.strip().lower()
Normalize(text) == lower(strip(text))

\* line 114
TooShort(movie_name) == Len(movie_name) < 2

receive_movie_name(u, sent) ==
    LET movie_name == Normalize(u.text) IN
    /\ Route(conversations, u) = "receive_movie_name"
    /\ uncaught' = Raised(sent, "receive_movie_name")
    /\ IF TooShort(movie_name)
       THEN /\ reply' = Sent(sent, Plain("too_short", u))
            /\ conversations' =
                   UpdateState(conversations, Key(u), WAITING_FOR_MOVIE_NAME, ~sent)
            /\ UNCHANGED user_data
       ELSE /\ user_data' = DictSet(user_data, u.user, movie_name)
            /\ reply' = Sent(sent, Reply("ask_link", u, movie_name, << >>, 0,
                                          << >>, << >>))
            /\ conversations' =
                   UpdateState(conversations, Key(u), WAITING_FOR_MOVIE_LINK, ~sent)
    /\ UNCHANGED <<MOVIES_DB, file, searches, now>>

\* context.user_data.get('movie_name'); Python's None is "None"
PendingName(ud, user) == IF user \in DOMAIN ud THEN ud[user] ELSE <<"None">>

Http == Chars("http://")

Https == Chars("https://")

\* a link check that accepts every text
ValidLinkAny(movie_link) == TRUE

\* line 133
ValidLink(movie_link) ==
    startswith(movie_link, Http) \/ startswith(movie_link, Https)

\* line 142
AddedBy(user) == IF username(user) # "" THEN username(user) ELSE first_name(user)

\* lines 140-144
NewInfo(movie_link, user, date) ==
    [link |-> movie_link, added_by |-> AddedBy(user), date |-> date]

receive_movie_link(u, sent, flush) ==
    LET movie_link == strip(u.text)
        movie_name == PendingName(user_data, u.user)
        db == SetItem(MOVIES_DB, movie_name, NewInfo(movie_link, u.user, now + 1))
    IN
    /\ Route(conversations, u) = "receive_movie_link"
    /\ uncaught' = Raised(sent, "receive_movie_link")
    /\ IF ~ValidLink(movie_link)
       THEN /\ reply' = Sent(sent, Plain("invalid_link", u))
            /\ conversations' =
                   UpdateState(conversations, Key(u), WAITING_FOR_MOVIE_LINK, ~sent)
            /\ UNCHANGED <<MOVIES_DB, file, now>>
       ELSE /\ now < MaxCommits
            /\ now' = now + 1
            /\ MOVIES_DB' = db
            /\ file' = save_movies_db(file, db, flush)
            /\ reply' = Sent(sent, Reply("added", u, movie_name, movie_link,
                                          Len(db), << >>, << >>))
            /\ conversations' = UpdateState(conversations, Key(u), END, ~sent)
    /\ UNCHANGED <<user_data, searches>>

cancel_sync(u, sent) ==
    /\ Route(conversations, u) = "cancel_sync"
    /\ uncaught' = Raised(sent, "cancel_sync")
    /\ reply' = Sent(sent, Plain("cancelled", u))
    /\ conversations' = UpdateState(conversations, Key(u), END, ~sent)
    /\ UNCHANGED <<MOVIES_DB, file, user_data, searches, now>>

---------------------------------------------------------------------------
(* Matching, src/bot.py lines 194-211 and 249-261.  A score is the pair     *)
(* <<n, d>> for the float n / d; scores compare by cross-multiplication.    *)

Score10 == <<1, 1>>

Score09 == <<9, 10>>

Score08 == <<4, 5>>

Threshold == <<3, 5>>

\* a > b on scores
Greater(a, b) == a[1] * b[2] > b[1] * a[2]

Candidate(item, score) == [title |-> item.title, info |-> item.info, score |-> score]

\* a tier test that gives the second tier to every title
TierOfItemLoose(movie_name, item) ==
    IF In(movie_name, item.title) THEN <<Candidate(item, Score10)>>
    ELSE <<Candidate(item, Score09)>>

\* lines 198-201: what one catalog item adds to the results
TierOfItem(movie_name, item) ==
    IF In(movie_name, item.title) THEN <<Candidate(item, Score10)>>
    ELSE IF In(item.title, movie_name) THEN <<Candidate(item, Score09)>>
    ELSE << >>

\* lines 197-201: the first pass over MOVIES_DB.items()
RECURSIVE TierPass(_, _)
TierPass(movie_name, db) ==
    IF db = << >> THEN << >>
    ELSE TierOfItem(movie_name, Head(db)) \o TierPass(movie_name, Tail(db))

\* line 260: characters of s1 that occur in s2
\* a count of the distinct characters of s1 that occur in s2
MatchesDistinct(s1, s2) ==
    Cardinality({s1[i] : i \in {j \in 1..Len(s1) : In(<<s1[j]>>, s2)}})

Matches(s1, s2) ==
    Cardinality({i \in 1..Len(s1) : In(<<s1[i]>>, s2)})

Max(a, b) == IF a >= b THEN a ELSE b

\* lines 249-261
calculate_similarity(a, b) ==
    Let(strip(lower(a)), LAMBDA s1 :
    Let(strip(lower(b)), LAMBDA s2 :
        IF s1 = s2 THEN Score10
        ELSE IF In(s1, s2) \/ In(s2, s1) THEN Score08
        ELSE <<Matches(s1, s2), Max(Len(s1), Len(s2))>>))

\* a second pass that keeps a similarity of exactly 0.6
FuzzyOfItemLoose(movie_name, item) ==
    Let(calculate_similarity(movie_name, item.title), LAMBDA similarity :
        IF ~Greater(Threshold, similarity)
        THEN <<Candidate(item, similarity)>> ELSE << >>)

\* lines 206-208: what one catalog item adds in the second pass
FuzzyOfItem(movie_name, item) ==
    Let(calculate_similarity(movie_name, item.title), LAMBDA similarity :
        IF Greater(similarity, Threshold)
        THEN <<Candidate(item, similarity)>> ELSE << >>)

\* lines 205-208: the second pass
RECURSIVE FuzzyPass(_, _)
FuzzyPass(movie_name, db) ==
    IF db = << >> THEN << >>
    ELSE FuzzyOfItem(movie_name, Head(db)) \o FuzzyPass(movie_name, Tail(db))

\* a sort that puts c before the elements of its own score
RECURSIVE InsertSortedFirst(_, _)
InsertSortedFirst(sorted, c) ==
    IF sorted = << >> THEN <<c>>
    ELSE IF ~Greater(Head(sorted).score, c.score) THEN <<c>> \o sorted
    ELSE <<Head(sorted)>> \o InsertSortedFirst(Tail(sorted), c)

\* list.sort(key=score, reverse=True) is stable: c goes after every element
\* whose score is not smaller
RECURSIVE InsertSorted(_, _)
InsertSorted(sorted, c) ==
    IF sorted = << >> THEN <<c>>
    ELSE IF Greater(c.score, Head(sorted).score) THEN <<c>> \o sorted
    ELSE <<Head(sorted)>> \o InsertSorted(Tail(sorted), c)

\* line 211: the first n results, sorted
SortResults(results) ==
    LET sorted[n \in 0..Len(results)] ==
            IF n = 0 THEN << >> ELSE InsertSorted(sorted[n - 1], results[n])
    IN  sorted[Len(results)]

\* a matcher that reads the catalog as it was before the latest insertion
SearchStale(movie_name, db) ==
    Let(SubSeq(db, 1, Len(db) - 1), LAMBDA old :
    Let(TierPass(movie_name, old), LAMBDA first :
    Let(IF first = << >> THEN FuzzyPass(movie_name, old) ELSE first,
        LAMBDA results : SortResults(results))))

\* lines 194-211: the ranked results of a query
Search(movie_name, db) ==
    Let(TierPass(movie_name, db), LAMBDA first :
    Let(IF first = << >> THEN FuzzyPass(movie_name, db) ELSE first,
        LAMBDA results : SortResults(results)))

\* results[:5]
Top5(results) == SubSeq(results, 1, IF Len(results) < 5 THEN Len(results) ELSE 5)

---------------------------------------------------------------------------
(* The query handler, src/bot.py lines 162-247.  The coroutine has three    *)
(* awaits: the acknowledgment, the five-second sleep and the edit of the    *)
(* acknowledgment into the final reply.  search_movie is the code up to     *)
(* the sleep, search_resume the code after it.                              *)

Slots == 1..MaxSearches

Free == [pc |-> "free", movie_name |-> << >>]

\* a handler that serves one query at a time
FreeSlotsInTurn ==
    IF \E i \in DOMAIN searches : searches[i].pc = "sleeping" THEN {}
    ELSE DOMAIN searches

FreeSlots == {i \in DOMAIN searches : searches[i].pc = "free"}

\* a query handler that only checks the chat
IgnoredElsewhere(u) == u.chat # REQUEST_GROUP_ID

\* lines 168-182: the update is not a query
Ignored(u) ==
    \/ u.chat # REQUEST_GROUP_ID
    \/ startswith(Normalize(u.text), Slash)
    \/ TooShort(Normalize(u.text))

search_movie(u, sent) ==
    LET movie_name == Normalize(u.text) IN
    /\ Route(conversations, u) = "search_movie"
    /\ IF Ignored(u)
       THEN /\ reply' = NoReply
            /\ uncaught' = ""
            /\ UNCHANGED searches
       ELSE /\ FreeSlots # {}
            /\ reply' = Sent(sent, Reply("searching", u, movie_name, << >>, 0,
                                          << >>, << >>))
            /\ uncaught' = Raised(sent, "search_movie")
            /\ searches' =
                   IF sent
                   THEN [searches EXCEPT ![CHOOSE i \in FreeSlots : \A j \in FreeSlots : i <= j] =
                             [pc |-> "sleeping", movie_name |-> movie_name]]
                   ELSE searches
    /\ UNCHANGED <<MOVIES_DB, file, conversations, user_data, now>>

\* lines 217-225: building the keyboard reads info['link'] of every listed
\* result, which raises KeyError on a record that has none
RenderRaises(results) ==
    \E i \in DOMAIN Top5(results) : "link" \notin DOMAIN results[i].info

TitlesOf(results) == [i \in DOMAIN results |-> results[i].title]

UrlsOf(results) == [i \in DOMAIN results |-> results[i].info.link]

\* a search that ends without a word
FinalReplySilent(t, results, db) == NoReply

\* lines 213-243: the final reply of a search that did not raise
FinalReply(t, results, db) ==
    IF results # << >>
    THEN Edit("results", t.movie_name, Len(results),
              TitlesOf(Top5(results)), UrlsOf(Top5(results)))
    ELSE Edit("not_found", t.movie_name, Len(db), << >>, << >>)

\* lines 192-247 after the sleep.  `edited' tells whether the edit_text of
\* the result went through, `reported' whether the edit_text of the except
\* branch did.
search_resume(i, edited, reported) ==
    LET t == searches[i] IN
    /\ t.pc = "sleeping"
    /\ searches' = [searches EXCEPT ![i] = Free]
    /\ \E results \in {Search(t.movie_name, MOVIES_DB)} :
           LET failed == RenderRaises(results) \/ ~edited IN
           /\ reply' = IF ~failed THEN FinalReply(t, results, MOVIES_DB)
                       ELSE Sent(reported,
                                 Edit("error", t.movie_name, 0, << >>, << >>))
           /\ uncaught' = IF failed /\ ~reported THEN "search_movie" ELSE ""
    /\ UNCHANGED <<MOVIES_DB, file, conversations, user_data, now>>

---------------------------------------------------------------------------
(* The program *)

\* the state after main() has built the application: MOVIES_DB is loaded
\* from movies.json (line 55), nothing else has happened
Init ==
    /\ file \in InitialFiles
    /\ MOVIES_DB = load_movies_db(file)
    /\ conversations = << >>
    /\ user_data = << >>
    /\ searches = [i \in Slots |-> Free]
    /\ now = 0
    /\ reply = NoReply
    /\ uncaught = ""

\* every send goes through and every flush succeeds
Next ==
    \/ \E u \in Updates : start(u, TRUE)
    \/ \E u \in Updates : help_command(u, TRUE)
    \/ \E u \in Updates : sync_movies(u, TRUE)
    \/ \E u \in Updates : receive_movie_name(u, TRUE)
    \/ \E u \in Updates : receive_movie_link(u, TRUE, "ok")
    \/ \E u \in Updates : cancel_sync(u, TRUE)
    \/ \E u \in Updates : search_movie(u, TRUE)
    \/ \E u \in Updates : Unhandled(u)
    \/ \E i \in Slots : search_resume(i, TRUE, TRUE)

Spec == Init /\ [][Next]_vars

\* sends may raise and flushes may fail
NextFault ==
    \/ \E u \in Updates, sent \in BOOLEAN : start(u, sent)
    \/ \E u \in Updates, sent \in BOOLEAN : help_command(u, sent)
    \/ \E u \in Updates, sent \in BOOLEAN : sync_movies(u, sent)
    \/ \E u \in Updates, sent \in BOOLEAN : receive_movie_name(u, sent)
    \/ \E u \in Updates, sent \in BOOLEAN, flush \in FlushOutcomes :
           receive_movie_link(u, sent, flush)
    \/ \E u \in Updates, sent \in BOOLEAN : cancel_sync(u, sent)
    \/ \E u \in Updates, sent \in BOOLEAN : search_movie(u, sent)
    \/ \E u \in Updates : Unhandled(u)
    \/ \E i \in Slots, edited \in BOOLEAN, reported \in BOOLEAN :
           search_resume(i, edited, reported)

SpecFault == Init /\ [][NextFault]_vars

\* two administrators at work at the same time, no query
NextPair ==
    \/ \E u \in PairUpdates : sync_movies(u, TRUE)
    \/ \E u \in PairUpdates : receive_movie_name(u, TRUE)
    \/ \E u \in PairUpdates : receive_movie_link(u, TRUE, "ok")
    \/ \E u \in PairUpdates : search_movie(u, TRUE)
    \/ \E u \in PairUpdates : Unhandled(u)

SpecPair == Init /\ [][NextPair]_vars

\* asyncio.sleep(5) returns and the event loop resumes the coroutine: no
\* search stays suspended for ever
SpecLive ==
    Spec /\ \A i \in Slots : WF_vars(search_resume(i, TRUE, TRUE))

\* the matcher on its own: the process starts on a catalog of MatchFiles
InitMatch ==
    /\ file \in MatchFiles
    /\ MOVIES_DB = load_movies_db(file)
    /\ conversations = << >>
    /\ user_data = << >>
    /\ searches = [i \in Slots |-> Free]
    /\ now = 0
    /\ reply = NoReply
    /\ uncaught = ""

\* and serves queries
NextMatch ==
    \/ \E u \in MatchUpdates : search_movie(u, TRUE)
    \/ \E i \in Slots : search_resume(i, TRUE, TRUE)

SpecMatch == InitMatch /\ [][NextMatch]_vars

\* queries and a dialogue in every interleaving
NextRead ==
    \/ \E u \in ReadUpdates : sync_movies(u, TRUE)
    \/ \E u \in ReadUpdates : receive_movie_name(u, TRUE)
    \/ \E u \in ReadUpdates : receive_movie_link(u, TRUE, "ok")
    \/ \E u \in ReadUpdates : search_movie(u, TRUE)
    \/ \E u \in ReadUpdates : Unhandled(u)
    \/ \E i \in Slots : search_resume(i, TRUE, TRUE)

SpecRead == Init /\ [][NextRead]_vars

\* a dialogue and queries while writes to movies.json may fail
NextFlush ==
    \/ \E u \in FlushUpdates : sync_movies(u, TRUE)
    \/ \E u \in FlushUpdates : receive_movie_name(u, TRUE)
    \/ \E u \in FlushUpdates, flush \in FlushOutcomes : receive_movie_link(u, TRUE, flush)
    \/ \E u \in FlushUpdates : search_movie(u, TRUE)
    \/ \E u \in FlushUpdates : Unhandled(u)
    \/ \E i \in Slots : search_resume(i, TRUE, TRUE)

SpecFlush == Init /\ [][NextFlush]_vars

\* one administrator in two chats
NextRoute ==
    \/ \E u \in RouteUpdates : sync_movies(u, TRUE)
    \/ \E u \in RouteUpdates : receive_movie_name(u, TRUE)
    \/ \E u \in RouteUpdates : receive_movie_link(u, TRUE, "ok")
    \/ \E u \in RouteUpdates : cancel_sync(u, TRUE)
    \/ \E u \in RouteUpdates : search_movie(u, TRUE)
    \/ \E u \in RouteUpdates : Unhandled(u)
    \/ \E i \in Slots : search_resume(i, TRUE, TRUE)

SpecRoute == Init /\ [][NextRoute]_vars

\* the same with room for one more pending query
Tasks == 1..(MaxSearches + 1)

InitTasks ==
    /\ file \in InitialFiles
    /\ MOVIES_DB = load_movies_db(file)
    /\ conversations = << >>
    /\ user_data = << >>
    /\ searches = [i \in Tasks |-> Free]
    /\ now = 0
    /\ reply = NoReply
    /\ uncaught = ""

NextTasks ==
    \/ \E u \in ReadUpdates : sync_movies(u, TRUE)
    \/ \E u \in ReadUpdates : receive_movie_name(u, TRUE)
    \/ \E u \in ReadUpdates : receive_movie_link(u, TRUE, "ok")
    \/ \E u \in ReadUpdates : search_movie(u, TRUE)
    \/ \E u \in ReadUpdates : Unhandled(u)
    \/ \E i \in Tasks : search_resume(i, TRUE, TRUE)

SpecTasks == InitTasks /\ [][NextTasks]_vars

---------------------------------------------------------------------------
(* Vocabulary of the properties *)

\* the step processes update u: the handler the dispatcher picks runs
Process(u) ==
    LET handler == Route(conversations, u) IN
    CASE handler = "start" -> start(u, TRUE)
      [] handler = "help_command" -> help_command(u, TRUE)
      [] handler = "sync_movies" -> sync_movies(u, TRUE)
      [] handler = "receive_movie_name" -> receive_movie_name(u, TRUE)
      [] handler = "receive_movie_link" -> receive_movie_link(u, TRUE, "ok")
      [] handler = "cancel_sync" -> cancel_sync(u, TRUE)
      [] handler = "search_movie" -> search_movie(u, TRUE)
      [] OTHER -> Unhandled(u)

\* the dialogue session of u's sender in u's chat
Idle(conv, u) == Key(u) \notin DOMAIN conv

AwaitingTitle(conv, u) ==
    Key(u) \in DOMAIN conv /\ conv[Key(u)] = WAITING_FOR_MOVIE_NAME

AwaitingLink(conv, u) ==
    Key(u) \in DOMAIN conv /\ conv[Key(u)] = WAITING_FOR_MOVIE_LINK

Authorized(u) == u.user \in ADMIN_IDS

EntryCommand(u) == u.command = Chars("/sync")

CancelCommand(u) == u.command = Chars("/cancel")

\* a message that is not a command
PlainText(u) == u.command = << >>

\* trimmed and lower-cased
Normalized(text) == lower(strip(text))

BeginsWithScheme(text) ==
    startswith(text, Chars("http://")) \/ startswith(text, Chars("https://"))

\* sub occurs in s as a contiguous run of characters
Contains(s, sub) ==
    \E a \in 0..Len(s), b \in 0..Len(s) : a <= b /\ SubSeq(s, a + 1, b) = sub

\* the catalog maps title to a record with this link
HasLink(db, title, link) ==
    \E i \in DOMAIN db :
        /\ db[i].title = title
        /\ "link" \in DOMAIN db[i].info
        /\ db[i].info.link = link

---------------------------------------------------------------------------
(* C1 *)

\* the first two legs of the round trip: the entry command of an authorized
\* operator with no session opens AwaitingTitle; a text of normalized
\* length >= 2 then moves the session to AwaitingLink with the normalized
\* text as pendingTitle
C1_Opening(u) ==
    /\ (Idle(conversations, u) /\ EntryCommand(u) /\ Authorized(u) /\ Process(u))
          => AwaitingTitle(conversations', u)
    /\ (AwaitingTitle(conversations, u) /\ PlainText(u)
          /\ Len(Normalized(u.text)) >= 2 /\ Process(u))
          => /\ AwaitingLink(conversations', u)
             /\ u.user \in DOMAIN user_data'
             /\ user_data'[u.user] = Normalized(u.text)

\* C1 as stated: the round trip of an authorized operator goes Idle ->
\* AwaitingTitle -> AwaitingLink -> no session, and a text beginning with
\* http:// or https:// leaves pendingTitle in the catalog with a record
\* whose link is that text.
C1_Original ==
    [][\A u \in Updates :
          /\ C1_Opening(u)
          /\ (AwaitingLink(conversations, u) /\ PlainText(u)
                /\ BeginsWithScheme(u.text) /\ Process(u))
                => /\ Idle(conversations', u)
                   /\ HasLink(MOVIES_DB', user_data[u.user], u.text)]_vars

\* C1 as amended: the same round trip, the committed link being the text
\* trimmed of surrounding whitespace.
C1_RoundTrip ==
    [][\A u \in Updates :
          /\ C1_Opening(u)
          /\ (AwaitingLink(conversations, u) /\ PlainText(u)
                /\ BeginsWithScheme(u.text) /\ Process(u))
                => /\ Idle(conversations', u)
                   /\ HasLink(MOVIES_DB', user_data[u.user], strip(u.text))]_vars

\* a round trip has ended: "du" was committed with link "http://a", the
\* success report was sent and the operator has no session
C1_Witness ==
    /\ reply.kind = "added"
    /\ reply.name = Chars("du")
    /\ HasLink(MOVIES_DB, Chars("du"), Chars("http://a"))
    /\ conversations = << >>

---------------------------------------------------------------------------
(* C2 *)

\* the step completes u's dialogue: a valid link is accepted in AwaitingLink
Completes(u) ==
    /\ AwaitingLink(conversations, u)
    /\ PlainText(u)
    /\ BeginsWithScheme(strip(u.text))
    /\ Process(u)

\* C2 as stated: every completed dialogue increments the catalog size by
\* exactly 1, whatever the catalog and the pendingTitle, and the success
\* report carries the new size.
C2_Original ==
    [][\A u \in Updates :
          Completes(u) => /\ Len(MOVIES_DB') = Len(MOVIES_DB) + 1
                          /\ reply'.kind = "added"
                          /\ reply'.total = Len(MOVIES_DB')]_vars

\* C2 as amended: a completed dialogue increments the catalog size by
\* exactly 1 when pendingTitle is not yet a title of the catalog and leaves
\* the size (and the set of titles) as it is when it is one; the success
\* report carries the resulting size.
C2_SizeAfterCommit ==
    [][\A u \in Updates :
          Completes(u) =>
              /\ IF user_data[u.user] \in Titles(MOVIES_DB)
                 THEN /\ Len(MOVIES_DB') = Len(MOVIES_DB)
                      /\ Titles(MOVIES_DB') = Titles(MOVIES_DB)
                 ELSE Len(MOVIES_DB') = Len(MOVIES_DB) + 1
              /\ Cardinality(Titles(MOVIES_DB')) = Len(MOVIES_DB')
              /\ reply'.kind = "added"
              /\ reply'.total = Len(MOVIES_DB')]_vars

\* two dialogues were completed and the catalog holds one record: the second
\* commit replaced the first one's record, and the report says 1
C2_Witness ==
    /\ now = 2
    /\ Len(MOVIES_DB) = 1
    /\ reply.kind = "added"
    /\ reply.total = 1

---------------------------------------------------------------------------
(* C3 *)

\* C3: an entry command from an authorized operator whose session is in
\* AwaitingTitle or AwaitingLink puts the session back in AwaitingTitle and
\* prompts for a title again.
C3_Restart ==
    [][\A u \in Updates :
          (~Idle(conversations, u) /\ EntryCommand(u) /\ Authorized(u) /\ Process(u))
              => /\ AwaitingTitle(conversations', u)
                 /\ reply'.kind = "ask_name"]_vars

---------------------------------------------------------------------------
(* C4 *)

DialogueReplies ==
    {"ask_name", "too_short", "ask_link", "invalid_link", "added", "cancelled"}

\* C4: no identity outside the allow-list ever has a dialogue session; its
\* entry command is answered with the permission error; whatever it sends
\* changes neither the sessions, the pending titles nor the catalog, and is
\* never answered as a title or a link would be.
C4_Unauthorized ==
    /\ [](\A k \in DOMAIN conversations : k[2] \in ADMIN_IDS)
    /\ [][\A u \in Updates :
             (~Authorized(u) /\ Process(u))
                 => /\ EntryCommand(u) => reply'.kind = "denied"
                    /\ reply'.kind \notin DialogueReplies
                    /\ conversations' = conversations
                    /\ user_data' = user_data
                    /\ MOVIES_DB' = MOVIES_DB
                    /\ file' = file]_vars

\* the guest's entry command was refused
C4_Witness ==
    /\ reply.kind = "denied"
    /\ reply.to = Chars("/sync")
    /\ \A k \in DOMAIN conversations : k[2] # "guest"

---------------------------------------------------------------------------
(* C5 *)

\* the step re-prompts with `kind' and changes nothing else
Reprompts(kind) ==
    /\ reply'.kind = kind
    /\ conversations' = conversations
    /\ user_data' = user_data
    /\ MOVIES_DB' = MOVIES_DB
    /\ file' = file

\* a title of normalized length < 2 in AwaitingTitle is re-prompted
C5_ShortTitle(u) ==
    (AwaitingTitle(conversations, u) /\ PlainText(u)
       /\ Len(Normalized(u.text)) < 2 /\ Process(u)) => Reprompts("too_short")

\* C5 as stated: a too short title in AwaitingTitle, and in AwaitingLink a
\* text that does not begin with http:// or https://, are re-prompted and
\* change neither the session, the pendingTitle nor the catalog.
C5_Original ==
    [][\A u \in Updates :
          /\ C5_ShortTitle(u)
          /\ (AwaitingLink(conversations, u) /\ PlainText(u)
                /\ ~BeginsWithScheme(u.text) /\ Process(u))
                => Reprompts("invalid_link")]_vars

\* C5 as amended: the same, for a text of AwaitingLink whose trimmed form
\* does not begin with http:// or https://.
C5_InvalidInput ==
    [][\A u \in Updates :
          /\ C5_ShortTitle(u)
          /\ (AwaitingLink(conversations, u) /\ PlainText(u)
                /\ ~BeginsWithScheme(strip(u.text)) /\ Process(u))
                => Reprompts("invalid_link")]_vars

\* a text that is no link was re-prompted in AwaitingLink
C5_Witness ==
    /\ reply.kind = "invalid_link"
    /\ conversations = (<<"admin1", "admin1">> :> WAITING_FOR_MOVIE_LINK)
    /\ now = 0

---------------------------------------------------------------------------
(* C6 *)

\* C6: a cancel command in AwaitingTitle or AwaitingLink ends the session,
\* is acknowledged and leaves the catalog as it is; nothing an operator
\* with no session sends (a link after the cancel included) commits a record.
C6_Cancel ==
    [][\A u \in Updates :
          /\ (~Idle(conversations, u) /\ CancelCommand(u) /\ Process(u))
                => /\ Idle(conversations', u)
                   /\ reply'.kind = "cancelled"
                   /\ MOVIES_DB' = MOVIES_DB
                   /\ file' = file
          /\ (Idle(conversations, u) /\ Process(u))
                => /\ MOVIES_DB' = MOVIES_DB
                   /\ file' = file]_vars

\* a session that had accepted a title was cancelled before any commit
C6_Witness ==
    /\ reply.kind = "cancelled"
    /\ conversations = << >>
    /\ user_data # << >>
    /\ now = 0

---------------------------------------------------------------------------
(* C7 *)

\* a query the handler accepts: sent in the request group, no command,
\* normalized length >= 2
Accepted(u) ==
    /\ u.chat = REQUEST_GROUP_ID
    /\ ~startswith(Normalized(u.text), Chars("/"))
    /\ Len(Normalized(u.text)) >= 2

FinalReplies == {"results", "not_found", "error"}

\* slot i takes up a query in this step
Begins(i) == searches[i].pc = "free" /\ searches'[i].pc = "sleeping"

---------------------------------------------------------------------------
(* C8 *)

\* C8: no failure of a query's acknowledgment, matching or rendering leaves
\* the query handler: each is caught and answered with the error reply.
C8_Contained ==
    [][\A i \in Slots :
          /\ uncaught' # "search_movie"
          /\ (searches[i].pc = "sleeping" /\ searches'[i].pc = "free"
                /\ reply'.kind \notin {"results", "not_found"})
                => reply'.kind = "error"]_vars

---------------------------------------------------------------------------
(* C9 *)

\* C9: whatever the interleaving of two operators' dialogues, a commit keeps
\* every record of another title as it was, stores under its title the
\* committing operator's record in full, keeps one record per title, and
\* leaves the persisted catalog equal to the one in memory.
C9_NoLostRecord ==
    [][\A u \in PairUpdates :
          Completes(u) =>
              LET title == user_data[u.user] IN
              /\ \A t \in Titles(MOVIES_DB) \ {title} :
                     /\ t \in Titles(MOVIES_DB')
                     /\ Lookup(MOVIES_DB', t) = Lookup(MOVIES_DB, t)
              /\ title \in Titles(MOVIES_DB')
              /\ Lookup(MOVIES_DB', title) =
                     [link |-> strip(u.text),
                      added_by |-> IF u.user = "admin1" THEN "neo" ELSE "Trinity",
                      date |-> now']
              /\ Cardinality(Titles(MOVIES_DB')) = Len(MOVIES_DB')
              /\ file'.state = "valid"
              /\ file'.db = MOVIES_DB']_vars

\* both operators have committed, under different titles, and both records
\* are in the catalog and in the file
C9_Witness ==
    /\ \E t1, t2 \in Titles(MOVIES_DB) :
          /\ t1 # t2
          /\ "added_by" \in DOMAIN Lookup(MOVIES_DB, t1)
          /\ "added_by" \in DOMAIN Lookup(MOVIES_DB, t2)
          /\ Lookup(MOVIES_DB, t1).added_by = "neo"
          /\ Lookup(MOVIES_DB, t2).added_by = "Trinity"
    /\ file.db = MOVIES_DB
    /\ conversations = << >>

---------------------------------------------------------------------------
(* C10 *)

\* the tier-pass candidates of the pending query in slot i for the catalog
\* item at k
TierCandidates(i, k) ==
    LET results == TierPass(searches[i].movie_name, MOVIES_DB)
    IN  {j \in DOMAIN results : results[j].title = MOVIES_DB[k].title}

\* C10: in the tier pass of a pending query, a title that contains the
\* query yields exactly one candidate, of score 1.0; otherwise a title that
\* the query contains yields exactly one candidate, of score 0.9; any other
\* title yields none.
C10_TierPass ==
    \A i \in Slots :
        searches[i].pc = "sleeping" =>
            LET movie_name == searches[i].movie_name
                results == TierPass(movie_name, MOVIES_DB)
            IN  \A k \in DOMAIN MOVIES_DB :
                    LET title == MOVIES_DB[k].title IN
                    IF Contains(title, movie_name)
                    THEN /\ Cardinality(TierCandidates(i, k)) = 1
                         /\ \A j \in TierCandidates(i, k) :
                                /\ results[j].score = <<1, 1>>
                                /\ results[j].info = MOVIES_DB[k].info
                    ELSE IF Contains(movie_name, title)
                    THEN /\ Cardinality(TierCandidates(i, k)) = 1
                         /\ \A j \in TierCandidates(i, k) :
                                /\ results[j].score = <<9, 10>>
                                /\ results[j].info = MOVIES_DB[k].info
                    ELSE TierCandidates(i, k) = {}

\* the query "du" is pending on a catalog with a title of each tier
C10_Witness ==
    /\ \E i \in Slots :
          /\ searches[i].pc = "sleeping"
          /\ searches[i].movie_name = Chars("du")
    /\ Titles(MOVIES_DB) = {Chars("dune"), Chars("d")}

---------------------------------------------------------------------------
(* C11 *)

\* the titles of the candidates
ResultTitles(results) == {results[j].title : j \in DOMAIN results}

\* the catalog items in a substring relation with the query
Tiered(movie_name, db) ==
    {k \in DOMAIN db : \/ Contains(db[k].title, movie_name)
                       \/ Contains(movie_name, db[k].title)}

\* C11: when some title is in a substring relation with the pending query
\* the results are those titles alone, with the tier scores 1.0 and 0.9;
\* when none is, the results are exactly the titles whose similarity to
\* the query is strictly greater than 0.6, each once and with that score.
C11_Fallback ==
    \A i \in Slots :
        searches[i].pc = "sleeping" =>
            LET movie_name == searches[i].movie_name
                results == Search(movie_name, MOVIES_DB)
                tiered == Tiered(movie_name, MOVIES_DB)
                similar == {k \in DOMAIN MOVIES_DB :
                               Greater(calculate_similarity(movie_name,
                                                            MOVIES_DB[k].title),
                                       <<3, 5>>)}
            IN  IF tiered # {}
                THEN /\ ResultTitles(results) = {MOVIES_DB[k].title : k \in tiered}
                     /\ \A j \in DOMAIN results :
                            results[j].score \in {<<1, 1>>, <<9, 10>>}
                ELSE /\ ResultTitles(results) = {MOVIES_DB[k].title : k \in similar}
                     /\ Len(results) = Cardinality(similar)
                     /\ \A j \in DOMAIN results :
                            results[j].score =
                                calculate_similarity(movie_name, results[j].title)

\* the query "ud" was answered from the fallback pass: "du" has the same
\* characters, "dune" too few of them
C11_Witness ==
    /\ reply.kind = "results"
    /\ reply.name = Chars("ud")
    /\ reply.titles = <<Chars("du")>>
    /\ Titles(MOVIES_DB) = {Chars("du"), Chars("dune")}

---------------------------------------------------------------------------
(* C12 *)

\* the position of a title in the catalog's iteration order
Position(db, title) == CHOOSE k \in DOMAIN db : db[k].title = title

\* results is in descending order of score, equal scores in catalog order
Ranked(results, db) ==
    \A j, k \in DOMAIN results :
        j < k =>
            /\ ~Greater(results[k].score, results[j].score)
            /\ ~Greater(results[j].score, results[k].score)
                  => Position(db, results[j].title) < Position(db, results[k].title)

\* C12: the candidates of a pending query are ranked by descending score,
\* equal scores in catalog insertion order, and the result list that ends
\* the query names the first min(5, n) of them in that order and reports n.
C12_Ranking ==
    /\ [](\A i \in Slots :
             searches[i].pc = "sleeping"
                 => Ranked(Search(searches[i].movie_name, MOVIES_DB), MOVIES_DB))
    /\ [][\A i \in Slots :
             (/\ searches[i].pc = "sleeping"
              /\ searches'[i].pc = "free"
              /\ reply'.kind = "results")
                 => LET results == Search(searches[i].movie_name, MOVIES_DB)
                        n == Len(results)
                        shown == IF n < 5 THEN n ELSE 5
                    IN  /\ reply'.total = n
                        /\ reply'.titles = [p \in 1..shown |-> results[p].title]]_vars

\* the query "dune" had six candidates: the exact title first, the five of
\* score 0.9 after it in catalog order, and the last of them not listed
C12_Witness ==
    /\ reply.kind = "results"
    /\ reply.name = Chars("dune")
    /\ reply.total = 6
    /\ reply.titles =
           <<Chars("dune"), Chars("d"), Chars("un"), Chars("du"), Chars("ne")>>

---------------------------------------------------------------------------
(* C13 *)

\* the scores x and y are the same number
SameScore(x, y) == x[1] * y[2] = y[1] * x[2]

\* how many characters of a occur somewhere in b
Occurring(a, b) ==
    Cardinality({i \in DOMAIN a : \E j \in DOMAIN b : b[j] = a[i]})

\* what the claim says of score(a, b)
Scored(a, b) ==
    LET na == Normalized(a)
        nb == Normalized(b)
        longer == IF Len(na) < Len(nb) THEN Len(nb) ELSE Len(na)
    IN  IF na = nb THEN SameScore(calculate_similarity(a, b), <<1, 1>>)
        ELSE IF Contains(na, nb) \/ Contains(nb, na)
        THEN /\ SameScore(calculate_similarity(a, b), <<4, 5>>)
             /\ calculate_similarity(a, b) = calculate_similarity(b, a)
        ELSE calculate_similarity(a, b) = <<Occurring(na, nb), longer>>

\* C13: for a pending query and every catalog title, in both argument
\* orders: score(x, x) is 1.0; when one normalized string contains the
\* other the score is 1.0 if they are equal and 0.8 otherwise, the same in
\* both orders; in every other case the score is the number of characters
\* of the first normalized string that occur in the second, divided by the
\* greater of the two lengths.
C13_Scorer ==
    \A i \in Slots :
        searches[i].pc = "sleeping" =>
            LET a == searches[i].movie_name IN
            /\ SameScore(calculate_similarity(a, a), <<1, 1>>)
            /\ \A k \in DOMAIN MOVIES_DB :
                   LET b == MOVIES_DB[k].title IN
                   /\ SameScore(calculate_similarity(b, b), <<1, 1>>)
                   /\ Scored(a, b)
                   /\ Scored(b, a)

\* the query "dd" is pending against the title "du": neither contains the
\* other, both characters of "dd" occur in "du" (2 / 2) and one character
\* of "du" occurs in "dd" (1 / 2)
C13_Witness ==
    \E i \in Slots :
        /\ searches[i].pc = "sleeping"
        /\ searches[i].movie_name = Chars("dd")
        /\ \E k \in DOMAIN MOVIES_DB :
               /\ MOVIES_DB[k].title = Chars("du")
               /\ calculate_similarity(Chars("dd"), MOVIES_DB[k].title) = <<2, 2>>
               /\ calculate_similarity(MOVIES_DB[k].title, Chars("dd")) = <<1, 2>>

---------------------------------------------------------------------------
(* C14 *)

QueryReplies == {"searching"} \cup FinalReplies

---------------------------------------------------------------------------
(* C15 *)

\* the step is a commit whose flush failed: the catalog in memory took a
\* record and the file does not hold that catalog
FlushFailed ==
    /\ now' = now + 1
    /\ file'.state # "valid" \/ file'.db # MOVIES_DB'

\* C15: the reply an operator receives for a commit whose flush failed is
\* not the ordinary success report.
C15_Warned == [][FlushFailed => reply'.kind # "added"]_vars

---------------------------------------------------------------------------
(* C16 *)

\* the positions of the catalog db that answer the query: the titles in a
\* substring relation with it or, when there is none, those more similar
\* to it than 0.6
Found(movie_name, db) ==
    IF Tiered(movie_name, db) # {} THEN Tiered(movie_name, db)
    ELSE {k \in DOMAIN db :
              Greater(calculate_similarity(movie_name, db[k].title), <<3, 5>>)}

\* a record as a commit writes it, or as the file held it at start
WholeRecord(info) ==
    info = LegacyInfo \/ DOMAIN info = {"link", "added_by", "date"}

\* C16: the catalog holds whole records only, and the final reply of a
\* query is the one the catalog of the moment matching runs determines, all
\* commits made until then included: not found, with that catalog's size,
\* exactly when no title of that catalog answers the query; otherwise the
\* titles of that catalog that answer it, with their links and their
\* number, or the error reply when one of them has no link.
C16_OneCatalog ==
    /\ [](\A k \in DOMAIN MOVIES_DB : WholeRecord(MOVIES_DB[k].info))
    /\ [][\A i \in Slots :
             (searches[i].pc = "sleeping" /\ searches'[i].pc = "free")
                 => LET found == Found(searches[i].movie_name, MOVIES_DB) IN
                    /\ MOVIES_DB' = MOVIES_DB
                    /\ reply'.kind \in FinalReplies
                    /\ reply'.kind = "not_found"
                          <=> found = {}
                    /\ reply'.kind = "not_found"
                          => reply'.total = Len(MOVIES_DB)
                    /\ reply'.kind = "error"
                          => \E k \in found : "link" \notin DOMAIN MOVIES_DB[k].info
                    /\ reply'.kind = "results"
                          => /\ reply'.total = Cardinality(found)
                             /\ Len(reply'.titles) = Cardinality(found)
                             /\ \A k \in found :
                                   \E p \in DOMAIN reply'.titles :
                                      /\ reply'.titles[p] = MOVIES_DB[k].title
                                      /\ reply'.urls[p] = MOVIES_DB[k].info.link]_vars

\* the query "ud" was acknowledged when no title answered it, and while it
\* is in its delay the operator's commit of "du" has been reported: the
\* catalog the matching will read holds the legacy title and "du"
C16_Witness ==
    /\ \E i \in Slots :
          /\ searches[i].pc = "sleeping"
          /\ searches[i].movie_name = Chars("ud")
    /\ reply.kind = "added"
    /\ reply.name = Chars("du")
    /\ Titles(MOVIES_DB) = {Chars("dune"), Chars("du")}

---------------------------------------------------------------------------
(* C17 *)

\* the model has no room for the step u asks for: every slot holds a pending
\* query, or the bound on commits is reached
Capped(u) ==
    \/ /\ Accepted(u) /\ PlainText(u) /\ Idle(conversations, u)
       /\ \A i \in Tasks : searches[i].pc = "sleeping"
    \/ /\ AwaitingLink(conversations, u) /\ PlainText(u)
       /\ BeginsWithScheme(strip(u.text))
       /\ now = MaxCommits

---------------------------------------------------------------------------
(* C18 *)

\* the operator has a dialogue session
InDialogue(conv, user) == \E k \in DOMAIN conv : k[2] = user

\* C18: a text that is not a command, from an operator who has a session,
\* is answered by the dialogue, as a title or as a link, and starts no
\* query, in whatever chat it is sent; from a sender without a session, in
\* the request group, it is handled as a query (acknowledged when it is
\* one) and changes neither the sessions nor the catalog.
C18_Exclusive ==
    [][\A u \in RouteUpdates :
          (PlainText(u) /\ Process(u)) =>
              IF InDialogue(conversations, u.user)
              THEN /\ reply'.kind \in {"too_short", "ask_link", "invalid_link", "added"}
                   /\ searches' = searches
              ELSE u.chat = REQUEST_GROUP_ID
                      => /\ Accepted(u) => reply'.kind = "searching"
                         /\ conversations' = conversations
                         /\ MOVIES_DB' = MOVIES_DB
                         /\ file' = file]_vars

---------------------------------------------------------------------------
(* C19 *)

\* the step is a commit: the clock of commits advances
Commits == now' = now + 1

\* C19: a commit puts its record in the catalog in memory whether or not
\* its flush succeeds, and no step ever takes a title out of that catalog;
\* the final reply of every query is the one that catalog determines,
\* whatever the file holds; and a commit that changes the file either
\* leaves it unreadable or makes it equal to the whole catalog in memory,
\* records whose own flush failed included.
C19_MemoryAuthoritative ==
    /\ [][\A u \in FlushUpdates :
             (Commits /\ AwaitingLink(conversations, u) /\ PlainText(u)
                 /\ \E flush \in FlushOutcomes : receive_movie_link(u, TRUE, flush))
                 => /\ HasLink(MOVIES_DB', user_data[u.user], strip(u.text))
                    /\ reply'.kind = "added"
                    /\ reply'.total = Len(MOVIES_DB')]_vars
    /\ [][Titles(MOVIES_DB) \subseteq Titles(MOVIES_DB')]_vars
    /\ [][\A i \in Slots :
             (searches[i].pc = "sleeping" /\ searches'[i].pc = "free")
                 => LET found == Found(searches[i].movie_name, MOVIES_DB) IN
                    /\ reply'.kind = "not_found" <=> found = {}
                    /\ reply'.kind = "results"
                          => /\ reply'.total = Cardinality(found)
                             /\ \A k \in found :
                                   \E p \in DOMAIN reply'.titles :
                                      reply'.titles[p] = MOVIES_DB[k].title]_vars
    /\ [][(Commits /\ file' # file)
             => \/ file'.state = "corrupt"
                \/ file'.state = "valid" /\ file'.db = MOVIES_DB']_vars

\* no movies.json exists, so the flush of the commit of "du" failed, and
\* the query "du" asked afterwards has been answered with that record
C19_Witness ==
    /\ file.state = "missing"
    /\ Titles(MOVIES_DB) = {Chars("du")}
    /\ reply.kind = "results"
    /\ reply.name = Chars("du")
    /\ reply.titles = <<Chars("du")>>
    /\ reply.urls = <<Chars("http://a")>>

---------------------------------------------------------------------------
(* C20 *)

\* a title as the dialogue accepts it
WellFormed(title) == title = Normalized(title) /\ Len(title) >= 2

\* C20: every title added by the dialogue is normalized and has at least
\* two characters; a session in AwaitingLink has a pendingTitle, which is
\* such a title; and as long as the session stays in AwaitingLink its
\* pendingTitle stays the one the session accepted, so that the title it
\* commits is its own.
C20_OwnTitle ==
    /\ [](\A k \in DOMAIN MOVIES_DB :
             "added_by" \in DOMAIN MOVIES_DB[k].info => WellFormed(MOVIES_DB[k].title))
    /\ [](\A k \in DOMAIN conversations :
             conversations[k] = WAITING_FOR_MOVIE_LINK
                 => /\ k[2] \in DOMAIN user_data
                    /\ WellFormed(user_data[k[2]]))
    /\ [][\A k \in DOMAIN conversations :
             (/\ conversations[k] = WAITING_FOR_MOVIE_LINK
              /\ k \in DOMAIN conversations'
              /\ conversations'[k] = WAITING_FOR_MOVIE_LINK)
                 => user_data'[k[2]] = user_data[k[2]]]_vars

==========================================================================
